---- MODULE Spec2Model ----
(***************************************************************************)
(* Model of the robobar REST bridge: the OPC-UA client of opc_client.py    *)
(* (connection lifecycle thread, the five domain reads, the order push     *)
(* protocol and its two pure decoders), the PLC memory it talks to, and    *)
(* the request contexts that call it.                                      *)
(***************************************************************************)
EXTENDS Integers, Sequences, FiniteSets, TLC

(* ------------------------------------------------------------------ *)
(* Bounds of the model                                                 *)
(* ------------------------------------------------------------------ *)

\* transport sessions the lifecycle loop may open in one run
MaxSessions == 2
\* order numbers the PLC hands out in one run
MaxOrders == 1
\* longest Python list handed to get_items_from_circular_buffer
MaxBufLen == 4
\* a sleep of the polling loop may overrun by this many polling intervals
MaxLag == 1
\* bytes a timestamp array may carry past its six decoded bytes
MaxExtraBytes == 1
\* slots of the pickup array
MaxSlots == 3
\* polls of the trigger flag one call makes where two calls run side by side
MaxPolls == 1

(* ------------------------------------------------------------------ *)
(* Program constants                                                   *)
(* ------------------------------------------------------------------ *)

\* class ReturnCodes
OK == 0
NOK == -1
TIMEOUT == -2
NO_CONNECTION == -3

\* class StatusCodes of api.py
UNDEFINED_ERROR == -1

\* time.sleep(1) of the lifecycle loop, in milliseconds
RetrySleepMs == 1000
MonitorSleepMs == 1000
\* push_new_drink: polling window and polling interval, in milliseconds
PollWindowMs == 5000
PollSleepMs == 500

\* Python's None, and a value v, as the data half of a returned pair
None == <<>>
Some(v) == <<v>>

(* ------------------------------------------------------------------ *)
(* Node handles (_init_nodes), in the order they are assigned          *)
(* ------------------------------------------------------------------ *)

NodeOrder ==
  << "_queue_items_node", "_queue_start_index", "_queue_end_index",
     "_current_queue_length_node", "_queue_read_index_node",
     "_drink_types_node", "_pickup_drinks_node",
     "prep_drink_nodes", "prep_drink_prepStartAt_nodes",
     "prep_drink_prepDoneAt_nodes",
     "_server_state_node", "_plc_time_node",
     "_push_new_order_node", "_new_order_use_ice_node",
     "_new_order_drink_size_node", "_new_drink_type_id_node",
     "_order_pushed_successfully_node", "_success_order_number_node" >>

Nodes == { NodeOrder[i] : i \in 1..Len(NodeOrder) }

\* the request contexts (one thread per HTTP request in flight)
Ctx == {"r1", "r2"}

VARIABLES
  connected,     \* RobobarOpcClient.connected
  handles,       \* node attribute -> session that resolved it, 0 = never assigned
  lpc,           \* position of the lifecycle thread in create_and_maintain_connection
  sessionCount,  \* transport sessions opened so far; the last one is the client's
  openSessions,  \* sessions whose transport is open
  tornDown,      \* sessions after whose teardown connected was set back to False
  liveness,      \* outcome of the last liveness read of this session: "none", "ok", "raise"
  lsleep,        \* milliseconds of the time.sleep the lifecycle thread is in, 0 = none
  plc,           \* PLC memory: Drink_DB and Queue_Handle_DB (what the reads see)
  term,          \* PLC memory: Web_Terminal_Communication (the order command area)
  req            \* per request context: the domain operation in flight

vars == << connected, handles, lpc, sessionCount, openSessions, tornDown,
           liveness, lsleep, plc, term, req >>

lifeVars == << connected, handles, lpc, sessionCount, openSessions, tornDown,
               liveness, lsleep >>

(* ------------------------------------------------------------------ *)
(* Transport                                                           *)
(* ------------------------------------------------------------------ *)

\* Outcomes of node.get_value() / node.set_value() through attribute n.
\* An attribute _init_nodes never assigned raises AttributeError; with no open
\* transport the call raises; otherwise it succeeds or fails (network loss
\* may happen at any time).
AccessOutcomes(n) ==
  IF handles[n] = 0 \/ openSessions = {} THEN {"raise"} ELSE {"ok", "raise"}

\* the handle behind attribute n was resolved by a session that has since
\* been torn down
StaleHandle(n) == handles[n] \in tornDown

(* ------------------------------------------------------------------ *)
(* Device session: create_and_maintain_connection                      *)
(* ------------------------------------------------------------------ *)

\* the attributes _init_nodes has assigned once its first k assignments ran
AssignedHandles(k, s) ==
  [ n \in Nodes |->
      IF \E i \in 1..k : NodeOrder[i] = n THEN s ELSE handles[n] ]

\* self.connect(): opens a transport session, or raises
connect ==
  /\ lpc = "connect"
  /\ \/ /\ sessionCount < MaxSessions
        /\ sessionCount' = sessionCount + 1
        /\ openSessions' = openSessions \cup {sessionCount + 1}
        /\ lpc' = "load_type_definitions"
     \/ /\ lpc' = "except"
        /\ UNCHANGED << sessionCount, openSessions >>
  /\ UNCHANGED << liveness, connected, handles, tornDown, lsleep, plc, term, req >>

\* self.load_type_definitions(): reads the structure definitions, or raises
load_type_definitions ==
  /\ lpc = "load_type_definitions"
  /\ \/ lpc' = "_init_nodes"
     \/ lpc' = "except"
  /\ UNCHANGED << liveness, connected, handles, sessionCount, openSessions, tornDown, lsleep, plc, term, req >>

\* the assignments of _init_nodes that ran before a get_node raised: none, or
\* those of lines 23-43 (Drink_DB, server state, PLC time)
InitFailPoints == { 0, 12 }

\* self._init_nodes(): assigns the attributes in order; a get_node that raises
\* leaves the attributes assigned before it pointing at the new session
init_nodes ==
  /\ lpc = "_init_nodes"
  /\ \/ /\ handles' = AssignedHandles(Len(NodeOrder), sessionCount)
        /\ lpc' = "set_connected"
     \/ /\ \E k \in InitFailPoints :
             handles' = AssignedHandles(k, sessionCount)
        /\ lpc' = "except"
  /\ UNCHANGED << liveness, connected, sessionCount, openSessions, tornDown, lsleep, plc, term, req >>

\* self.connected = True (line 384)
set_connected ==
  /\ lpc = "set_connected"
  /\ connected' = TRUE
  /\ lpc' = "monitor"
  /\ UNCHANGED << liveness, handles, sessionCount, openSessions, tornDown, lsleep, plc, term, req >>

\* except branch of the connection attempt: connected = False, then sleep(1)
connect_failed ==
  /\ lpc = "except"
  /\ connected' = FALSE
  /\ lsleep' = RetrySleepMs
  /\ lpc' = "sleep_retry"
  /\ UNCHANGED << liveness, handles, sessionCount, openSessions, tornDown, plc, term, req >>

retry_without_continue ==
  /\ lpc = "sleep_retry"
  /\ lsleep' = 0
  /\ lpc' = "monitor"
  /\ UNCHANGED << liveness, connected, handles, sessionCount, openSessions, tornDown, plc, term, req >>

\* the sleep is over: continue, i.e. try to connect again
retry ==
  /\ lpc = "sleep_retry"
  /\ lsleep' = 0
  /\ lpc' = "connect"
  /\ UNCHANGED << liveness, connected, handles, sessionCount, openSessions, tornDown, plc, term, req >>

\* self._server_state_node.get_value() of the monitoring loop, then sleep(1)
monitor ==
  /\ lpc = "monitor"
  /\ \E out \in AccessOutcomes("_server_state_node") :
       IF out = "ok"
         THEN /\ lsleep' = MonitorSleepMs
              /\ lpc' = "monitor_sleep"
              /\ liveness' = "ok"
         ELSE /\ lsleep' = 0
              /\ lpc' = "disconnect"
              /\ liveness' = "raise"
  /\ UNCHANGED << connected, handles, sessionCount, openSessions, tornDown, plc, term, req >>

monitor_sleep ==
  /\ lpc = "monitor_sleep"
  /\ lsleep' = 0
  /\ lpc' = "monitor"
  /\ UNCHANGED << liveness, connected, handles, sessionCount, openSessions, tornDown, plc, term, req >>

\* self.disconnect(): closes the transport, or raises (the transport is then
\* closed or left open)
disconnect ==
  /\ lpc = "disconnect"
  /\ \/ openSessions' = openSessions \ {sessionCount}
     \/ openSessions' = openSessions
  /\ lpc' = "finally"
  /\ UNCHANGED << liveness, connected, handles, sessionCount, tornDown, lsleep,
                  plc, term, req >>

teardown_without_finally ==
  /\ lpc = "finally"
  /\ connected' = (sessionCount \in openSessions)
  /\ tornDown' = tornDown \cup {sessionCount}
  /\ liveness' = "none"
  /\ lpc' = "connect"
  /\ UNCHANGED << handles, sessionCount, openSessions, lsleep, plc, term, req >>

\* finally: self.connected = False (line 409), back to the top of the loop
teardown_finally ==
  /\ lpc = "finally"
  /\ connected' = FALSE
  /\ tornDown' = tornDown \cup {sessionCount}
  /\ liveness' = "none"
  /\ lpc' = "connect"
  /\ UNCHANGED << handles, sessionCount, openSessions, lsleep, plc, term, req >>

create_and_maintain_connection ==
  \/ connect
  \/ load_type_definitions
  \/ init_nodes
  \/ set_connected
  \/ connect_failed
  \/ retry
  \/ monitor
  \/ monitor_sleep
  \/ disconnect
  \/ teardown_finally

(* ------------------------------------------------------------------ *)
(* Python values                                                       *)
(* ------------------------------------------------------------------ *)

PyInt(v) == [t |-> "int", v |-> v]
PyBool(b) == [t |-> "bool", v |-> IF b THEN 1 ELSE 0]
PyStr == [t |-> "str", v |-> 0]

\* list[i] of a Python list held as a sequence: indices 0..len-1, and
\* -len..-1 counting from the end; anything else is an IndexError
PyInRange(list, i) == -Len(list) <= i /\ i < Len(list)
PyIndex(list, i) == IF i >= 0 THEN list[i + 1] ELSE list[Len(list) + i + 1]

(* ------------------------------------------------------------------ *)
(* Circular buffer extractor: get_items_from_circular_buffer           *)
(* ------------------------------------------------------------------ *)

BufferIndexOffByOne(index_of_first_item, queue_index, index_of_buffer_start, index_of_buffer_end) ==
  LET buffer_index == index_of_first_item + queue_index
  IN  IF buffer_index > index_of_buffer_end
        THEN (buffer_index - index_of_buffer_end) + index_of_buffer_start
        ELSE buffer_index

\* lines 98-101: the buffer index of queue position queue_index
BufferIndex(index_of_first_item, queue_index, index_of_buffer_start, index_of_buffer_end) ==
  LET buffer_index == index_of_first_item + queue_index
  IN  IF buffer_index > index_of_buffer_end
        THEN (buffer_index - index_of_buffer_end - 1) + index_of_buffer_start
        ELSE buffer_index

RECURSIVE CircularLoop(_, _, _, _, _, _, _)
CircularLoop(buffer, index_of_first_item, queue_length, index_of_buffer_start, index_of_buffer_end, queue_index, ret_items) ==
  IF queue_index >= queue_length
    THEN [raised |-> FALSE, items |-> ret_items]
    ELSE LET buffer_index == BufferIndex(index_of_first_item, queue_index,
                                         index_of_buffer_start, index_of_buffer_end)
         IN  IF ~PyInRange(buffer, buffer_index)
               THEN [raised |-> TRUE, items |-> ret_items]
               ELSE CircularLoop(buffer, index_of_first_item, queue_length,
                                 index_of_buffer_start, index_of_buffer_end,
                                 queue_index + 1,
                                 Append(ret_items, PyIndex(buffer, buffer_index)))

\* [raised, items]: raised is the IndexError of buffer[buffer_index]
get_items_from_circular_buffer(buffer, index_of_first_item, queue_length, index_of_buffer_start, index_of_buffer_end) ==
  CircularLoop(buffer, index_of_first_item, queue_length, index_of_buffer_start,
               index_of_buffer_end, 0, <<>>)

(* ------------------------------------------------------------------ *)
(* BCD timestamp decoder                                               *)
(* ------------------------------------------------------------------ *)

VALUE_NAMES == << "year", "month", "day", "hours", "minutes", "seconds" >>

Min(a, b) == IF a < b THEN a ELSE b

BcdNumberBinary(byte_index, dt_byte) ==
  IF VALUE_NAMES[byte_index + 1] = "year" THEN dt_byte + 2000 ELSE dt_byte

\* lines 129-133: one byte of the Date_and_Time value
BcdNumber(byte_index, dt_byte) ==
  LET high == dt_byte \div 16
      low == dt_byte % 16
      number == 10 * high + low
  IN  IF VALUE_NAMES[byte_index + 1] = "year" THEN number + 2000 ELSE number

\* the dict, as the function from the keys that were set to their numbers
get_datetime_dict_from_byte_array(byte_array) ==
  [ name \in { VALUE_NAMES[i] : i \in 1..Min(Len(byte_array), 6) } |->
      LET i == CHOOSE j \in 1..6 : VALUE_NAMES[j] = name
      IN  BcdNumber(i - 1, byte_array[i]) ]

DigitChar == << "0", "1", "2", "3", "4", "5", "6", "7", "8", "9" >>

RECURSIVE Decimal(_)
\* the decimal digits of n >= 0, most significant first
Decimal(n) ==
  IF n < 10 THEN << DigitChar[n + 1] >>
            ELSE Append(Decimal(n \div 10), DigitChar[(n % 10) + 1])

RECURSIVE ZeroPad(_, _)
ZeroPad(digits, width) ==
  IF Len(digits) >= width THEN digits ELSE ZeroPad(<< "0" >> \o digits, width)

\* f'{n:0<width>d}' for n >= 0: at least width characters, never truncated
FormatD(n, width) == ZeroPad(Decimal(n), width)

\* the string as its sequence of characters
get_datetime_string(year, month, day, hours, minutes, seconds) ==
  FormatD(year, 4) \o << "-" >> \o FormatD(month, 2) \o << "-" >> \o
  FormatD(day, 2) \o << "-" >> \o FormatD(hours, 2) \o << "-" >> \o
  FormatD(minutes, 2) \o << "-" >> \o FormatD(seconds, 2)

\* lines 273-284 and 306-328: the dict rendered; a key the dict lacks is a KeyError
DatetimeStringOf(byte_array) ==
  LET d == get_datetime_dict_from_byte_array(byte_array)
  IN  IF DOMAIN d # { VALUE_NAMES[i] : i \in 1..6 }
        THEN [raised |-> TRUE, str |-> <<>>]
        ELSE [raised |-> FALSE,
              str |-> get_datetime_string(d["year"], d["month"], d["day"],
                                          d["hours"], d["minutes"], d["seconds"])]

(* ------------------------------------------------------------------ *)
(* PLC memory                                                          *)
(* ------------------------------------------------------------------ *)

\* a drink record of the PLC, told apart by the slot p it sits in
Drink(p) == [orderId |-> 10 + p, drinkTypeId |-> p % 2, prepStartAt |-> p]

\* the value behind attribute n (side picks the element of the three lists)
NodeValue(n, side) ==
  CASE n = "_queue_items_node" -> plc.drinkQueue.items
    [] n = "_queue_start_index" -> plc.drinkQueue.firstItemIndex
    [] n = "_queue_end_index" -> plc.drinkQueue.lastItemIndex
    [] n = "_current_queue_length_node" -> plc.drinkQueue.currentQueueLength
    [] n = "_queue_read_index_node" -> plc.drinkQueue.readIndex
    [] n = "_drink_types_node" -> plc.drinkTypes
    [] n = "_pickup_drinks_node" -> plc.pickUpDrinks
    [] n = "prep_drink_nodes" -> PyIndex(plc.prepDrink, side).drink
    [] n = "prep_drink_prepStartAt_nodes" -> PyIndex(plc.prepDrink, side).prepStartAt
    [] n = "prep_drink_prepDoneAt_nodes" -> PyIndex(plc.prepDrink, side).prepDoneAt
    [] n = "_plc_time_node" -> plc.currentTime
    [] n = "_push_new_order_node" -> term.pushNewOrderToQueue
    [] n = "_order_pushed_successfully_node" -> term.orderPushedSuccessfully
    [] n = "_success_order_number_node" -> term.successOrderNumber

\* Drink_DB as the reads of the session model find it
PlcExample ==
  [ drinkQueue |->
      [ items |-> << Drink(0), Drink(1), Drink(2), Drink(3) >>,
        firstItemIndex |-> 0, lastItemIndex |-> 3,
        currentQueueLength |-> 2, readIndex |-> 3 ],
    drinkTypes |->
      << [ drinkName |-> "Coffee", drinkEnabled |-> TRUE, postmixDrink |-> "",
           conveyorDrink |-> "", coffeeDrink |-> "espresso",
           iceOption |-> FALSE, volumeOption |-> TRUE,
           parameters |-> [ showParameters |-> TRUE, coffeeStrength |-> 2,
                            volumeInMl |-> 100, milkPercentage |-> 0 ],
           preparationTime |-> 10000 ],
         [ drinkName |-> "Cola", drinkEnabled |-> FALSE, postmixDrink |-> "cola",
           conveyorDrink |-> "rum", coffeeDrink |-> "",
           iceOption |-> TRUE, volumeOption |-> FALSE,
           parameters |-> [ showParameters |-> FALSE, coffeeStrength |-> 0,
                            volumeInMl |-> 300, milkPercentage |-> 0 ],
           preparationTime |-> 30500 ] >>,
    pickUpDrinks |->
      << [ orderId |-> 0, drinkTypeId |-> 0, prepStartAt |-> 0, pickedUp |-> FALSE ],
         [ orderId |-> 7, drinkTypeId |-> 1, prepStartAt |-> 1, pickedUp |-> FALSE ],
         [ orderId |-> 8, drinkTypeId |-> 0, prepStartAt |-> 2, pickedUp |-> TRUE ] >>,
    prepDrink |->
      << [ drink |-> [ orderId |-> 10, drinkTypeId |-> 0 ],
           prepStartAt |-> << 34, 5, 18, 21, 16, 0, 0, 0 >>,
           prepDoneAt |-> << 34, 5, 18, 21, 17, 48, 0, 0 >> ],
         [ drink |-> [ orderId |-> 11, drinkTypeId |-> 1 ],
           prepStartAt |-> << 34, 5, 18, 21, 22, 9, 0, 0 >>,
           prepDoneAt |-> << 0, 0, 0, 0, 0, 0, 0, 0 >> ] >>,
    currentTime |-> << 34, 5, 18, 21, 16, 0, 0, 0 >> ]

\* the attributes through which push_new_drink writes the command area
CommandNodes ==
  { "_new_order_use_ice_node", "_new_order_drink_size_node",
    "_new_drink_type_id_node", "_push_new_order_node" }

\* the command area before any order was pushed
TermInit ==
  [ pushNewOrderToQueue |-> FALSE, newOrderUseIce |-> PyBool(FALSE),
    newOrderDrinkSizeId |-> PyInt(0), newOrderDrinkTypeId |-> PyInt(0),
    orderPushedSuccessfully |-> FALSE, successOrderNumber |-> 0,
    \* the context whose set_value last wrote each variable
    writer |-> [ n \in CommandNodes |-> "none" ],
    \* the device has consumed useIce, drinkSize and drinkTypeId values that
    \* were not all written by one context
    mixed |-> FALSE,
    \* the context whose trigger the published acknowledgement answers
    ackFor |-> "none",
    \* a push_new_drink call was entered while a call of another context was
    \* in flight or the trigger it had raised still awaited the device
    overlap |-> FALSE ]

(* ------------------------------------------------------------------ *)
(* Domain reads: from raw node values to the json-ready object         *)
(* ------------------------------------------------------------------ *)

DomainReads ==
  { "get_queue_drinks_json", "get_drink_types_json", "get_pickup_drinks_json",
    "get_current_plc_time", "get_prep_drink_json" }

\* the attributes an operation reads inside its try block, in order
ReadNodes(op) ==
  CASE op = "get_queue_drinks_json" ->
         << "_queue_items_node", "_queue_start_index", "_queue_end_index",
            "_current_queue_length_node", "_queue_read_index_node" >>
    [] op = "get_drink_types_json" -> << "_drink_types_node" >>
    [] op = "get_pickup_drinks_json" -> << "_pickup_drinks_node" >>
    [] op = "get_current_plc_time" -> << "_plc_time_node" >>
    [] op = "get_prep_drink_json" ->
         << "prep_drink_nodes", "prep_drink_prepStartAt_nodes",
            "prep_drink_prepDoneAt_nodes" >>
    [] op = "get_new_order_status" ->
         << "_order_pushed_successfully_node", "_success_order_number_node" >>

\* the attributes that hold a two-element list indexed by side
SideIndexed ==
  { "prep_drink_nodes", "prep_drink_prepStartAt_nodes", "prep_drink_prepDoneAt_nodes" }

\* lines 162-180
QueueDrinksObj(vals) ==
  LET queue_drinks == get_items_from_circular_buffer(vals[1], vals[5], vals[4],
                                                      vals[2], vals[3])
  IN  [ raised |-> queue_drinks.raised,
        obj |-> [ ii \in 1..Len(queue_drinks.items) |->
                    [ drinkOrderId |-> queue_drinks.items[ii].orderId,
                      drinkTypeId |-> queue_drinks.items[ii].drinkTypeId,
                      prepStartedAt |-> queue_drinks.items[ii].prepStartAt ] ] ]

\* lines 199-224
DrinkTypesObj(vals) ==
  LET drink_types == vals[1]
  IN  [ raised |-> FALSE,
        obj |-> [ ii \in 1..Len(drink_types) |->
                    LET drink_type == drink_types[ii]
                    IN  [ id |-> ii - 1,
                          name |-> drink_type.drinkName,
                          enabled |-> drink_type.drinkEnabled,
                          drinkGroups |->
                            [ soft |-> drink_type.postmixDrink # ""
                                       /\ drink_type.conveyorDrink = "",
                              alcohol |-> drink_type.conveyorDrink # "",
                              coffee |-> drink_type.coffeeDrink # "" ],
                          iceOption |-> drink_type.iceOption,
                          volumeOption |-> drink_type.volumeOption,
                          parameters |-> drink_type.parameters,
                          \* preparationTime / 1000 as the fraction it is
                          prepTimeInSeconds |->
                            [ num |-> drink_type.preparationTime, den |-> 1000 ] ] ] ]

PickupDrinksObjKeyedByOrder(vals) ==
  LET pickup_drinks == vals[1]
      kept == { ii \in 1..Len(pickup_drinks) :
                  pickup_drinks[ii].orderId # 0 /\ ~pickup_drinks[ii].pickedUp }
  IN  [ raised |-> FALSE,
        obj |-> [ id \in { pickup_drinks[ii].orderId : ii \in kept } |->
                    LET ii == CHOOSE k \in kept : pickup_drinks[k].orderId = id
                    IN  [ drinkOrderId |-> pickup_drinks[ii].orderId,
                          drinkTypeId |-> pickup_drinks[ii].drinkTypeId,
                          prepStartedAt |-> pickup_drinks[ii].prepStartAt ] ] ]

\* lines 242-255: the dict keyed by the position ii (from 0) in the PLC array
PickupDrinksObj(vals) ==
  LET pickup_drinks == vals[1]
      keys == { ii \in 0..(Len(pickup_drinks) - 1) :
                  pickup_drinks[ii + 1].orderId # 0
                  /\ ~pickup_drinks[ii + 1].pickedUp }
  IN  [ raised |-> FALSE,
        obj |-> [ ii \in keys |->
                    [ drinkOrderId |-> pickup_drinks[ii + 1].orderId,
                      drinkTypeId |-> pickup_drinks[ii + 1].drinkTypeId,
                      prepStartedAt |-> pickup_drinks[ii + 1].prepStartAt ] ] ]

\* lines 273-286
PlcTimeObj(vals) ==
  LET t == DatetimeStringOf(vals[1])
  IN  [ raised |-> t.raised, obj |-> t.str ]

\* lines 306-332
PrepDrinkObj(vals) ==
  LET prep_startAt == DatetimeStringOf(vals[2])
      prep_doneAt == DatetimeStringOf(vals[3])
  IN  [ raised |-> prep_startAt.raised \/ prep_doneAt.raised,
        obj |-> [ drinkOrderId |-> vals[1].orderId,
                  drinkTypeId |-> vals[1].drinkTypeId,
                  prepStartedAt |-> prep_startAt.str,
                  prepDoneAt |-> prep_doneAt.str ] ]

NewOrderStatusObjOffByOne(vals) ==
  [ raised |-> FALSE,
    obj |-> [ orderPushedSuccessfully |-> vals[1], pushedOrderNumber |-> vals[2] + 1 ] ]

\* lines 365-372
NewOrderStatusObj(vals) ==
  [ raised |-> FALSE,
    obj |-> [ orderPushedSuccessfully |-> vals[1], pushedOrderNumber |-> vals[2] ] ]

\* what follows the try block of an operation: [raised, obj]
JsonObj(op, vals) ==
  CASE op = "get_queue_drinks_json" -> QueueDrinksObj(vals)
    [] op = "get_drink_types_json" -> DrinkTypesObj(vals)
    [] op = "get_pickup_drinks_json" -> PickupDrinksObj(vals)
    [] op = "get_current_plc_time" -> PlcTimeObj(vals)
    [] op = "get_prep_drink_json" -> PrepDrinkObj(vals)
    [] op = "get_new_order_status" -> NewOrderStatusObj(vals)

(* ------------------------------------------------------------------ *)
(* Request contexts                                                    *)
(* ------------------------------------------------------------------ *)

NoArgs == [ drink_type_id |-> PyInt(0), new_order_use_ice |-> PyBool(FALSE),
            drink_size |-> PyInt(0) ]

\* no request has been answered yet
NoResponse ==
  [ kind |-> "none", op |-> "idle", result |-> << >>, statusCode |-> None,
    payload |-> << >> ]

\* a context with no operation in flight
Idle ==
  [ op |-> "idle",          \* the operation invoked
    pc |-> "idle",          \* where it stands
    side |-> 0,             \* argument of get_prep_drink_json
    args |-> NoArgs,        \* arguments of push_new_drink
    connSeen |-> "unchecked", \* self.connected when the operation last tested it
    reading |-> "idle",     \* the operation whose try block of reads is running
    i |-> 0,                \* next read or write of the running block
    vals |-> << >>,         \* raw values read so far
    wlog |-> << >>,         \* set_value calls made: [node, ok]
    polls |-> 0,            \* reads of the trigger flag made by the polling loop
    elapsed |-> 0,          \* datetime.now() - start_time, in milliseconds
    sawFalse |-> FALSE,     \* a poll has read the trigger flag as False
    accessed |-> {},        \* attributes through which a node was read or written
    stale |-> FALSE,        \* one of these accesses went through a stale handle
    ackOf |-> {},           \* the contexts whose acknowledgement was read
    outcome |-> "none",     \* "returned", or the exception that was raised
    ret |-> << >>,          \* the returned pair << status, data >>
    resp |-> NoResponse ]   \* what the handler answered to the last request

Returned(r, status, data) ==
  [ r EXCEPT !.pc = "done", !.outcome = "returned", !.ret = << status, data >> ]

Raised(r, exc) == [ r EXCEPT !.pc = "done", !.outcome = exc ]

\* bookkeeping of one get_value / set_value through attribute n
Touch(r, n) ==
  [ r EXCEPT !.accessed = @ \cup {n}, !.stale = @ \/ StaleHandle(n),
             !.ackOf = IF n \in { "_order_pushed_successfully_node",
                                  "_success_order_number_node" }
                         THEN @ \cup { term.ackFor } ELSE @ ]

\* the value of self.connected at this moment, as the context's record keeps it
ConnectedNow == IF connected THEN "True" ELSE "False"

ConnectedIsFalseSkipped == FALSE

\* "if self.connected is False" (lines 147, 188, 232, 263, 294, 354)
ConnectedIsFalse == connected = FALSE

\* entry of a domain read: the connection test, then the try block
ReadInvoke(c, op, side) ==
  /\ req[c].pc = "idle"
  /\ req' = [ req EXCEPT ![c] =
       LET r == [ Idle EXCEPT !.op = op, !.side = side, !.connSeen = ConnectedNow ]
       IN  IF ConnectedIsFalse
             THEN Returned(r, NO_CONNECTION, None)
             ELSE [ r EXCEPT !.reading = op, !.pc = "read", !.i = 1 ] ]
  /\ UNCHANGED << lifeVars, plc, term >>

\* the lookup of the handle raises inside the try block: the attribute was
\* never assigned (AttributeError) or side is no index of the list (IndexError)
LookupRaises(n, side) ==
  \/ handles[n] = 0
  \/ n \in SideIndexed /\ ~PyInRange(<< "left", "right" >>, side)

\* what follows the try block once its last value is read
AfterTry(r) ==
  LET j == JsonObj(r.reading, r.vals)
  IN  IF j.raised THEN Raised(r, "Exception") ELSE Returned(r, OK, Some(j.obj))

ReadFrameDropsConnection ==
  /\ connected' = (connected /\ \A c \in Ctx : ~(req'[c].pc = "done"
                                                 /\ req'[c].ret = << NOK, None >>))
  /\ UNCHANGED << handles, lpc, sessionCount, openSessions, tornDown, liveness,
                  lsleep, plc, term >>

ReadFramePopsQueue ==
  /\ plc' = [ plc EXCEPT !.drinkQueue.currentQueueLength = IF @ > 0 THEN @ - 1 ELSE @ ]
  /\ UNCHANGED << lifeVars, term >>

\* a try block of get_value calls and its except branch assign nothing but
\* locals: the client's attributes and the PLC stay as they are
ReadFrame == UNCHANGED << lifeVars, plc, term >>

\* one get_value of the running try block; "except Exception" returns NOK
ReadStep(c) ==
  LET r == req[c]
      nodes == ReadNodes(r.reading)
      n == nodes[r.i]
  IN  /\ r.pc = "read"
      /\ IF LookupRaises(n, r.side)
           THEN req' = [ req EXCEPT ![c] = Returned(r, NOK, None) ]
           ELSE \E out \in AccessOutcomes(n) :
                  req' = [ req EXCEPT ![c] =
                    IF out = "raise"
                      THEN Returned(Touch(r, n), NOK, None)
                      ELSE LET r2 == [ Touch(r, n) EXCEPT
                                         !.vals = Append(@, NodeValue(n, r.side)),
                                         !.i = @ + 1 ]
                           IN  IF r.i = Len(nodes) THEN AfterTry(r2) ELSE r2 ]
      /\ ReadFrame

\* what an accessor hands to its handler: the tuple (status, data)
AccessorResult(r) == [ t |-> "tuple", v |-> r.ret ]

\* "x is opc_client.ReturnCodes.<code>": x is that very member of the enum
IsReturnCode(x, code) == x.t = "ReturnCodes" /\ x.v = code

\* api.py lines 116-121 (and 125-130, 135-140, 144-149, 153-158)
GetResponse(op, result) ==
  IF IsReturnCode(result, NOK)
    THEN [ kind |-> "error", op |-> op, result |-> result.v,
           statusCode |-> Some(UNDEFINED_ERROR), payload |-> << >> ]
    ELSE [ kind |-> "result", op |-> op, result |-> result.v,
           statusCode |-> None, payload |-> result.v ]

\* api.py lines 164-180: json_body is the request body the arguments came from
PostResponse(op, json_body, new_drink_status) ==
  IF IsReturnCode(new_drink_status, NOK)
    THEN [ kind |-> "error", op |-> op, result |-> new_drink_status.v,
           statusCode |-> Some(UNDEFINED_ERROR), payload |-> << >> ]
    ELSE IF IsReturnCode(new_drink_status, TIMEOUT)
      THEN [ kind |-> "timeout", op |-> op, result |-> new_drink_status.v,
             statusCode |-> Some(TIMEOUT), payload |-> << >> ]
      ELSE [ kind |-> "echo", op |-> op, result |-> new_drink_status.v,
             statusCode |-> None, payload |-> << json_body >> ]

\* the answer of the handler of r's request; an exception of the accessor
\* passes through the handler
HandlerResponse(r) ==
  IF r.outcome # "returned"
    THEN [ kind |-> "exception", op |-> r.op, result |-> << >>,
           statusCode |-> None, payload |-> << >> ]
    ELSE IF r.op = "push_new_drink"
           THEN PostResponse(r.op, r.args, AccessorResult(r))
           ELSE GetResponse(r.op, AccessorResult(r))

\* the handler answers with what it made of the accessor's result; the context
\* is free for the next request
Return(c) ==
  /\ req[c].pc = "done"
  /\ req' = [ req EXCEPT ![c] = [ Idle EXCEPT !.resp = HandlerResponse(req[c]) ] ]
  /\ UNCHANGED << lifeVars, plc, term >>

Sides == { -1, 0, 1, 2 }

get_queue_drinks_json(c) == ReadInvoke(c, "get_queue_drinks_json", 0)
get_drink_types_json(c) == ReadInvoke(c, "get_drink_types_json", 0)
get_pickup_drinks_json(c) == ReadInvoke(c, "get_pickup_drinks_json", 0)
get_current_plc_time(c) == ReadInvoke(c, "get_current_plc_time", 0)
get_prep_drink_json(c) == \E side \in Sides : ReadInvoke(c, "get_prep_drink_json", side)

(* ------------------------------------------------------------------ *)
(* Order submission: push_new_drink, get_new_order_status              *)
(* ------------------------------------------------------------------ *)

\* get_ua_boolean_object / get_ua_integer_object: TypeError unless the exact type
get_ua_boolean_object(boolean_value) ==
  [ raised |-> boolean_value.t # "bool", value |-> boolean_value ]

get_ua_integer_object(integer_number) ==
  [ raised |-> integer_number.t # "int", value |-> integer_number ]

\* the Variant is an Int16: a number outside its range cannot be sent
FitsInt16(v) == v.t # "int" \/ (-32768 <= v.v /\ v.v <= 32767)

PushWriteOrderTriggerBeforeType ==
  << "_new_order_use_ice_node", "_new_order_drink_size_node",
     "_push_new_order_node", "_new_drink_type_id_node" >>

PushWriteOrderTriggerFirst ==
  << "_push_new_order_node", "_new_order_use_ice_node",
     "_new_order_drink_size_node", "_new_drink_type_id_node" >>

\* lines 336-339: the four set_value calls, in order
PushWriteOrder ==
  << "_new_order_use_ice_node", "_new_order_drink_size_node",
     "_new_drink_type_id_node", "_push_new_order_node" >>

\* the ua object the i-th call builds from the arguments
PushWriteValue(args, i) ==
  CASE i = 1 -> get_ua_boolean_object(args.new_order_use_ice)
    [] i = 2 -> get_ua_integer_object(args.drink_size)
    [] i = 3 -> get_ua_integer_object(args.drink_type_id)
    [] i = 4 -> get_ua_boolean_object(PyBool(TRUE))

\* the command area after a successful set_value through attribute n
Written(n, value) ==
  CASE n = "_new_order_use_ice_node" -> [ term EXCEPT !.newOrderUseIce = value ]
    [] n = "_new_order_drink_size_node" -> [ term EXCEPT !.newOrderDrinkSizeId = value ]
    [] n = "_new_drink_type_id_node" -> [ term EXCEPT !.newOrderDrinkTypeId = value ]
    [] n = "_push_new_order_node" -> [ term EXCEPT !.pushNewOrderToQueue = (value.v = 1) ]

DrinkTypeIds == { PyInt(1), PyInt(40000), PyStr }
UseIceValues == { PyBool(TRUE), PyInt(1) }
DrinkSizes == { PyInt(1) }

\* a call of push_new_drink by context c has not returned yet
PushInFlight(c) == req[c].op = "push_new_drink" /\ req[c].pc \notin { "idle", "done" }

\* entry of push_new_drink: no connection test, straight into the try block
push_new_drink(c) ==
  /\ req[c].pc = "idle"
  /\ term' = [ term EXCEPT !.overlap = \/ @
                                         \/ \E d \in Ctx \ {c} : PushInFlight(d)
                                         \/ /\ term.pushNewOrderToQueue
                                            /\ term.writer["_push_new_order_node"] # c ]
  /\ \E id \in DrinkTypeIds, ice \in UseIceValues, size \in DrinkSizes :
       req' = [ req EXCEPT ![c] =
         [ Idle EXCEPT !.op = "push_new_drink", !.pc = "write", !.i = 1,
                       !.args = [ drink_type_id |-> id, new_order_use_ice |-> ice,
                                  drink_size |-> size ] ] ]
  /\ UNCHANGED << lifeVars, plc >>

\* one set_value of lines 336-339; "except Exception" returns NOK
PushWrite(c) ==
  LET r == req[c]
      n == PushWriteOrder[r.i]
      ua == PushWriteValue(r.args, r.i)
      outs == IF FitsInt16(ua.value) THEN AccessOutcomes(n) ELSE {"raise"}
  IN  /\ r.pc = "write"
      /\ IF LookupRaises(n, 0) \/ ua.raised
           THEN /\ req' = [ req EXCEPT ![c] = Returned(r, NOK, None) ]
                /\ term' = term
           ELSE \E out \in outs :
                  IF out = "raise"
                    THEN /\ req' = [ req EXCEPT ![c] =
                              Returned([ Touch(r, n) EXCEPT
                                           !.wlog = Append(@, [ node |-> n, ok |-> FALSE ]) ],
                                       NOK, None) ]
                         /\ term' = term
                    ELSE /\ req' = [ req EXCEPT ![c] =
                              [ Touch(r, n) EXCEPT
                                  !.wlog = Append(@, [ node |-> n, ok |-> TRUE ]),
                                  !.i = @ + 1,
                                  !.pc = IF r.i = Len(PushWriteOrder)
                                           THEN "settle" ELSE "write" ] ]
                         /\ term' = [ Written(n, ua.value) EXCEPT !.writer[n] = c ]
      /\ UNCHANGED << lifeVars, plc >>

\* "while (datetime.now() - start_time).total_seconds() < 5"
InPollWindow(elapsed) == elapsed < PollWindowMs

\* lines 344-346: time.sleep(0.1), start_time = datetime.now(), first loop test
PushSettle(c) ==
  /\ req[c].pc = "settle"
  /\ req' = [ req EXCEPT ![c] =
       IF InPollWindow(0) THEN [ @ EXCEPT !.elapsed = 0, !.pc = "poll" ]
                          ELSE Returned(@, TIMEOUT, None) ]
  /\ UNCHANGED << lifeVars, plc, term >>

\* line 347: one read of the trigger flag, outside any try block
PushPoll(c) ==
  LET r == req[c]
      n == "_push_new_order_node"
  IN  /\ r.pc = "poll"
      /\ IF LookupRaises(n, 0)
           THEN req' = [ req EXCEPT ![c] = Raised(r, "Exception") ]
           ELSE \E out \in AccessOutcomes(n) :
                  req' = [ req EXCEPT ![c] =
                    LET r2 == [ Touch(r, n) EXCEPT !.polls = @ + 1 ]
                    IN  IF out = "raise"
                          THEN Raised(r2, "Exception")
                          ELSE IF NodeValue(n, 0) = FALSE
                                 THEN [ r2 EXCEPT !.sawFalse = TRUE, !.pc = "status" ]
                                 ELSE [ r2 EXCEPT !.pc = "poll_sleep" ] ]
      /\ UNCHANGED << lifeVars, plc, term >>

\* line 349 and the next loop test: the sleep lasts 500 ms or longer
PushSleep(c) ==
  /\ req[c].pc = "poll_sleep"
  /\ \E lag \in 0..MaxLag :
       LET now == req[c].elapsed + PollSleepMs * (1 + lag)
       IN  req' = [ req EXCEPT ![c] =
             IF InPollWindow(now) THEN [ @ EXCEPT !.elapsed = now, !.pc = "poll" ]
                                  ELSE Returned([ @ EXCEPT !.elapsed = now ],
                                                TIMEOUT, None) ]
  /\ UNCHANGED << lifeVars, plc, term >>

\* line 348 into lines 354-356: the connection test of get_new_order_status
get_new_order_status(c) ==
  /\ req[c].pc = "status"
  /\ req' = [ req EXCEPT ![c] =
       LET r == [ @ EXCEPT !.connSeen = ConnectedNow ]
       IN  IF ConnectedIsFalse
             THEN Returned(r, NO_CONNECTION, None)
             ELSE [ r EXCEPT !.reading = "get_new_order_status",
                             !.pc = "read", !.i = 1, !.vals = << >> ] ]
  /\ UNCHANGED << lifeVars, plc, term >>

(* ------------------------------------------------------------------ *)
(* The PLC program                                                     *)
(* ------------------------------------------------------------------ *)

\* the device consumes a raised trigger flag: it clears it and publishes
\* whether the order was queued, and under which number
PlcConsumeOrder ==
  /\ term.pushNewOrderToQueue = TRUE
  /\ \E accepted \in IF term.successOrderNumber < MaxOrders THEN BOOLEAN ELSE {FALSE} :
       term' = [ term EXCEPT
                   !.pushNewOrderToQueue = FALSE,
                   !.orderPushedSuccessfully = accepted,
                   !.successOrderNumber = IF accepted THEN @ + 1 ELSE @,
                   !.mixed = @ \/ Cardinality({ term.writer[n] :
                                  n \in CommandNodes \ { "_push_new_order_node" } }) > 1,
                   !.ackFor = term.writer["_push_new_order_node"] ]
  /\ UNCHANGED << lifeVars, plc, req >>

(* ------------------------------------------------------------------ *)
(* The session model: the lifecycle thread, one request context, PLC   *)
(* ------------------------------------------------------------------ *)

Init ==
  /\ connected = FALSE
  /\ handles = [ n \in Nodes |-> 0 ]
  /\ lpc = "connect"
  /\ sessionCount = 0
  /\ openSessions = {}
  /\ tornDown = {}
  /\ liveness = "none"
  /\ lsleep = 0
  /\ plc = PlcExample
  /\ term = TermInit
  /\ req = [ c \in Ctx |-> Idle ]

ReadRequest(c) ==
  \/ get_queue_drinks_json(c)
  \/ get_drink_types_json(c)
  \/ get_pickup_drinks_json(c)
  \/ get_current_plc_time(c)
  \/ get_prep_drink_json(c)
  \/ ReadStep(c)
  \/ Return(c)

Request(c) ==
  \/ ReadRequest(c)
  \/ push_new_drink(c)
  \/ PushWrite(c)
  \/ PushSettle(c)
  \/ PushPoll(c)
  \/ PushSleep(c)
  \/ get_new_order_status(c)

Next ==
  \/ create_and_maintain_connection
  \/ Request("r1")
  \/ PlcConsumeOrder

Spec == Init /\ [][Next]_vars

(* ------------------------------------------------------------------ *)
(* Properties of the session model                                     *)
(* ------------------------------------------------------------------ *)

AckNodes == { "_order_pushed_successfully_node", "_success_order_number_node" }

\* the four set_value calls of the push in context c were made and succeeded
AllWritten(r) ==
  /\ Len(r.wlog) = Len(PushWriteOrder)
  /\ \A j \in 1..Len(r.wlog) : r.wlog[j].ok

\* C1: a domain read that finds connected false when invoked returns
\* (NO_CONNECTION, None) at once and reads no node.
C1_NoConnectionFailsFast ==
  \A c \in Ctx :
    (req[c].op \in DomainReads /\ req[c].connSeen = "False")
      => /\ req[c].pc = "done"
         /\ req[c].outcome = "returned"
         /\ req[c].ret = << NO_CONNECTION, None >>
         /\ req[c].accessed = {}
         /\ req[c].vals = << >>

C1_Witness ==
  \E c \in Ctx :
    /\ req[c].op = "get_prep_drink_json"
    /\ req[c].connSeen = "False"
    /\ req[c].pc = "done"
    /\ \A n \in Nodes : handles[n] # 0

\* C2: no domain operation reads or writes a node through a handle whose
\* session has been torn down.
C2_NoStaleHandleUse == \A c \in Ctx : ~req[c].stale

\* C3: the node handles are populated if and only if connected is true.
C3_HandlesIffConnected ==
  /\ connected => \A n \in Nodes : handles[n] # 0
  /\ ~connected => \A n \in Nodes : handles[n] = 0

\* C4: a push whose polls never read the trigger flag as false returns
\* (TIMEOUT, None) without reading the acknowledgement nodes, and the
\* acknowledgement nodes are read only after a poll read the flag as false.
C4_TimeoutWithoutAckReads ==
  \A c \in Ctx :
    /\ (req[c].op = "push_new_drink" /\ req[c].pc = "done"
        /\ AllWritten(req[c]) /\ ~req[c].sawFalse)
         => /\ req[c].outcome = "returned"
            /\ req[c].ret = << TIMEOUT, None >>
    /\ (req[c].accessed \cap AckNodes # {}) => req[c].sawFalse

\* C5: the writes of a push are made in the order useIce, drinkSize,
\* drinkTypeId, trigger flag; a write that fails is the last one, and the push
\* then returns (NOK, None) without having polled the trigger flag.
C5_WritesInOrderAbortOnFailure ==
  \A c \in Ctx :
    LET r == req[c]
    IN  r.op = "push_new_drink" =>
          /\ Len(r.wlog) <= Len(PushWriteOrder)
          /\ \A j \in 1..Len(r.wlog) :
               /\ r.wlog[j].node =
                    << "_new_order_use_ice_node", "_new_order_drink_size_node",
                       "_new_drink_type_id_node", "_push_new_order_node" >>[j]
               /\ ~r.wlog[j].ok =>
                    /\ j = Len(r.wlog)
                    /\ r.pc = "done"
                    /\ r.outcome = "returned"
                    /\ r.ret = << NOK, None >>
                    /\ r.polls = 0
          /\ (r.pc \notin {"write", "done"} \/ r.polls > 0) => AllWritten(r)

C5_Witness ==
  \E c \in Ctx :
    /\ req[c].op = "push_new_drink"
    /\ Len(req[c].wlog) = 3
    /\ req[c].wlog[1].ok /\ req[c].wlog[2].ok /\ ~req[c].wlog[3].ok
    /\ req[c].pc = "done"
    /\ term.pushNewOrderToQueue = FALSE

\* C6 as claimed: once a poll has read the trigger flag as false, the push
\* returns OK with the two acknowledgement values, whatever the session state.
C6_AckAlwaysOk ==
  \A c \in Ctx :
    (req[c].op = "push_new_drink" /\ req[c].pc = "done" /\ req[c].sawFalse)
      => /\ req[c].outcome = "returned"
         /\ req[c].ret[1] = OK

\* C6 as amended: once a poll has read the trigger flag as false, the push
\* runs get_new_order_status: with connected false at that moment it returns
\* (NO_CONNECTION, None) and reads no acknowledgement node; otherwise it reads
\* orderPushedSuccessfully and successOrderNumber and returns (NOK, None) if
\* a read fails and (OK, the two values the PLC holds) if both succeed.
C6_AckThroughStatus ==
  \A c \in Ctx :
    LET r == req[c]
    IN  (r.op = "push_new_drink" /\ r.pc = "done" /\ r.sawFalse) =>
          /\ r.outcome = "returned"
          /\ AllWritten(r)
          /\ r.connSeen = "False" =>
               /\ r.ret = << NO_CONNECTION, None >>
               /\ r.accessed \cap AckNodes = {}
          /\ r.connSeen = "True" =>
               \/ r.ret = << NOK, None >>
               \/ /\ r.ret[1] = OK
                  /\ r.accessed \cap AckNodes = AckNodes
                  /\ r.ret[2] =
                       Some([ orderPushedSuccessfully |-> term.orderPushedSuccessfully,
                              pushedOrderNumber |-> term.successOrderNumber ])

C6_Witness ==
  \E c \in Ctx :
    /\ req[c].op = "push_new_drink" /\ req[c].pc = "done" /\ req[c].sawFalse
    /\ req[c].ret[1] = OK
    /\ req[c].ret[2][1].orderPushedSuccessfully
    /\ req[c].ret[2][1].pushedOrderNumber = 1

\* C7: no transport failure escapes a domain operation as an exception;
\* every operation ends by returning a status.
C7_NoExceptionEscapes ==
  \A c \in Ctx : req[c].outcome \in {"none", "returned"}

(* ------------------------------------------------------------------ *)
(* The lifecycle thread under fair scheduling, beside the domain reads *)
(* ------------------------------------------------------------------ *)

NextLife ==
  \/ create_and_maintain_connection
  \/ ReadRequest("r1")

\* the lifecycle thread is a thread of its own: it is always scheduled again,
\* and each of its blocking calls (connect, read, sleep, disconnect) returns
SpecLife == Init /\ [][NextLife]_vars /\ WF_vars(create_and_maintain_connection)

\* the positions of a connection attempt and of its backoff
ConnectingPcs ==
  { "connect", "load_type_definitions", "_init_nodes", "except", "sleep_retry" }

\* C8: the lifecycle loop never terminates; a connection attempt that fails
\* at connect, load_type_definitions or _init_nodes is followed by the
\* 1-second sleep and then by another connect, and connected is false
\* throughout the attempts.
C8_RetriesForever ==
  /\ [](lpc \in ConnectingPcs => ~connected)
  /\ [](lpc = "sleep_retry" => lsleep = RetrySleepMs)
  /\ [][lpc = "connect" => lpc' \in {"load_type_definitions", "except"}]_lpc
  /\ [][lpc = "load_type_definitions" => lpc' \in {"_init_nodes", "except"}]_lpc
  /\ [][lpc = "_init_nodes" => lpc' \in {"set_connected", "except"}]_lpc
  /\ [][lpc = "except" => lpc' = "sleep_retry"]_lpc
  /\ [][lpc = "sleep_retry" => lpc' = "connect"]_lpc
  /\ [](ENABLED create_and_maintain_connection)
  /\ (lpc = "except" ~> lpc = "connect")

\* two sessions were opened, none was ever connected, and the loop is in its
\* backoff again, with the handles of a half-done _init_nodes
C8_Witness ==
  /\ lpc = "sleep_retry"
  /\ lsleep = RetrySleepMs
  /\ sessionCount = 2
  /\ tornDown = {}
  /\ ~connected
  /\ \E n \in Nodes : handles[n] = 2
  /\ \E n \in Nodes : handles[n] # 2

\* C9: a failed liveness read leads to teardown: disconnect is attempted,
\* connected is set to false whether the close succeeded or raised, and the
\* loop goes back to connect.
C9_LivenessFailureTearsDown ==
  /\ [](liveness = "raise" => lpc \in {"disconnect", "finally"})
  /\ [][lpc = "disconnect" => lpc' = "finally"]_lpc
  /\ [][lpc = "finally" => (lpc' = "connect" /\ ~connected')]_lpc
  /\ (liveness = "raise" ~> (~connected /\ lpc = "connect"))

\* the close raised and left the transport open, and connected is false again
C9_Witness ==
  /\ lpc = "connect"
  /\ ~connected
  /\ sessionCount \in tornDown
  /\ sessionCount \in openSessions

(* ------------------------------------------------------------------ *)
(* The queue read over every valid ring buffer view                    *)
(* ------------------------------------------------------------------ *)

\* a Python list of len drinks, the drink in slot p being Drink(p)
DrinkList(len) == [ p \in 1..len |-> Drink(p - 1) ]

\* the valid views whose indices are indices of the list:
\* 0 <= start <= readIndex <= end < len(items), 0 <= length <= end - start + 1
RingViews ==
  { [ items |-> DrinkList(len), firstItemIndex |-> first, lastItemIndex |-> last,
      currentQueueLength |-> qlen, readIndex |-> read ] :
      len \in 1..MaxBufLen, first \in 0..(MaxBufLen - 1), last \in 0..(MaxBufLen - 1),
      qlen \in 0..MaxBufLen, read \in 0..(MaxBufLen - 1) }

ValidView(v) ==
  /\ v.firstItemIndex <= v.readIndex
  /\ v.readIndex <= v.lastItemIndex
  /\ v.lastItemIndex < Len(v.items)
  /\ v.currentQueueLength <= v.lastItemIndex - v.firstItemIndex + 1

\* session 1 is connected and monitored; the PLC queue is any valid view
InitBuf ==
  /\ connected = TRUE
  /\ handles = [ n \in Nodes |-> 1 ]
  /\ lpc = "monitor"
  /\ sessionCount = 1
  /\ openSessions = {1}
  /\ tornDown = {}
  /\ liveness = "none"
  /\ lsleep = 0
  /\ plc \in { [ PlcExample EXCEPT !.drinkQueue = v ] : v \in { w \in RingViews : ValidView(w) } }
  /\ term = TermInit
  /\ req = [ c \in Ctx |-> Idle ]

NextBuf ==
  \/ get_queue_drinks_json("r1")
  \/ ReadStep("r1")
  \/ Return("r1")

SpecBuf == InitBuf /\ [][NextBuf]_vars

\* the physical index of queue position k, in closed form
RingIndex(v, k) ==
  v.firstItemIndex
    + ((v.readIndex - v.firstItemIndex + k)
         % (v.lastItemIndex - v.firstItemIndex + 1))

SessionOneMonitored ==
  /\ connected = TRUE
  /\ handles = [ n \in Nodes |-> 1 ]
  /\ lpc = "monitor"
  /\ sessionCount = 1
  /\ openSessions = {1}
  /\ tornDown = {}
  /\ liveness = "none"
  /\ lsleep = 0
  /\ term = TermInit
  /\ req = [ c \in Ctx |-> Idle ]

\* bytes with decimal digits in both nibbles (0x00, 0x12) and without (0x0F, 0xFF)
ByteValues == { 0, 15, 18, 255 }

RECURSIVE ByteArraysOfLen(_)
ByteArraysOfLen(n) ==
  IF n = 0 THEN { << >> }
           ELSE { Append(b, v) : b \in ByteArraysOfLen(n - 1), v \in ByteValues }

\* every array of up to six bytes, and the six-byte ones followed by the
\* bytes a Date_and_Time value carries past the seconds
ByteArrays ==
  UNION { ByteArraysOfLen(n) : n \in 0..Len(VALUE_NAMES) }
    \cup { b \o [ k \in 1..e |-> 0 ] :
             b \in ByteArraysOfLen(Len(VALUE_NAMES)), e \in 1..MaxExtraBytes }

\* the PLC time and both prepStartAt values hold the same byte array
InitBcd ==
  /\ SessionOneMonitored
  /\ plc \in { [ PlcExample EXCEPT !.currentTime = b,
                                   !.prepDrink[1].prepStartAt = b,
                                   !.prepDrink[2].prepStartAt = b ] :
               b \in ByteArrays }

NextBcd ==
  \/ get_current_plc_time("r1")
  \/ get_prep_drink_json("r1")
  \/ ReadStep("r1")
  \/ Return("r1")

SpecBcd == InitBcd /\ [][NextBcd]_vars

\* the try block of r's operation has read all its nodes
FullRead(r) == r.pc = "done" /\ Len(r.vals) = Len(ReadNodes(r.op))

\* the byte arrays a complete read of r's operation has decoded
TimestampVals(r) ==
  IF r.op = "get_current_plc_time" THEN { r.vals[1] } ELSE { r.vals[2], r.vals[3] }

\* C11: on fewer than 6 bytes the decoder yields no partial timestamp (a dict
\* holding only some of the six fields), and a PLC-time or drink-in-progress
\* read that received such a byte array returns a status other than OK.
C11_ShortTimestampFails ==
  \A c \in Ctx :
    LET r == req[c]
    IN  (r.op \in { "get_current_plc_time", "get_prep_drink_json" } /\ FullRead(r)) =>
          \A b \in TimestampVals(r) :
            Len(b) < Len(VALUE_NAMES) =>
              /\ LET d == get_datetime_dict_from_byte_array(b)
                     names == { VALUE_NAMES[i] : i \in 1..Len(VALUE_NAMES) }
                 IN  ~ (DOMAIN d \subseteq names /\ DOMAIN d # names)
              /\ r.outcome = "returned"
              /\ r.ret[1] # OK

\* the two hexadecimal digits of a byte read as decimal digits
BcdValue(b) ==
  LET high == CHOOSE h \in 0..15 : \E l \in 0..15 : b = 16 * h + l
      low == CHOOSE l \in 0..15 : \E h \in 0..15 : b = 16 * h + l
  IN  10 * high + low

\* 10 to the power of k, for the field widths in use
PowerOfTen(k) == CASE k = 0 -> 1 [] k = 1 -> 10 [] k = 2 -> 100 [] k = 3 -> 1000

\* n >= 0 in decimal, padded with zeros to width characters, in closed form
PaddedDecimal(n, width) ==
  LET len == IF n >= 1000 THEN 4 ELSE IF n >= 100 THEN 3 ELSE width
  IN  [ k \in 1..len |-> DigitChar[((n \div PowerOfTen(len - k)) % 10) + 1] ]

\* YYYY-MM-DD-hh-mm-ss of the first six bytes of b
RenderedTimestamp(b) ==
  PaddedDecimal(2000 + BcdValue(b[1]), 4) \o << "-" >> \o
  PaddedDecimal(BcdValue(b[2]), 2) \o << "-" >> \o
  PaddedDecimal(BcdValue(b[3]), 2) \o << "-" >> \o
  PaddedDecimal(BcdValue(b[4]), 2) \o << "-" >> \o
  PaddedDecimal(BcdValue(b[5]), 2) \o << "-" >> \o
  PaddedDecimal(BcdValue(b[6]), 2)

\* C12: for every array of at least 6 bytes the decoder yields, for position
\* i in 0..5, 10 * (byte >> 4) + (byte & 0xF), plus 2000 at position 0, under
\* the keys year, month, day, hours, minutes, seconds in that order, whatever
\* follows byte 5; the reads render it as YYYY-MM-DD-hh-mm-ss with zero-padded
\* fields, and 0x22 0x05 0x12 0x0F 0x0A 0x00 gives 2022-05-12-15-10-00.
C12_BcdDecodeAndRender ==
  /\ \A c \in Ctx :
       LET r == req[c]
       IN  (r.op \in { "get_current_plc_time", "get_prep_drink_json" } /\ FullRead(r)
              /\ \A b \in TimestampVals(r) : Len(b) >= Len(VALUE_NAMES)) =>
             /\ \A b \in TimestampVals(r) :
                  get_datetime_dict_from_byte_array(b) =
                    [ year |-> 2000 + BcdValue(b[1]), month |-> BcdValue(b[2]),
                      day |-> BcdValue(b[3]), hours |-> BcdValue(b[4]),
                      minutes |-> BcdValue(b[5]), seconds |-> BcdValue(b[6]) ]
             /\ r.outcome = "returned"
             /\ r.ret[1] = OK
             /\ r.op = "get_current_plc_time" =>
                  r.ret[2][1] = RenderedTimestamp(r.vals[1])
             /\ r.op = "get_prep_drink_json" =>
                  /\ r.ret[2][1].prepStartedAt = RenderedTimestamp(r.vals[2])
                  /\ r.ret[2][1].prepDoneAt = RenderedTimestamp(r.vals[3])
  /\ DatetimeStringOf(<< 34, 5, 18, 15, 10, 0 >>) =
       [ raised |-> FALSE,
         str |-> << "2", "0", "2", "2", "-", "0", "5", "-", "1", "2", "-",
                    "1", "5", "-", "1", "0", "-", "0", "0" >> ]

\* the PLC time 0x12 0xFF 0x0F ... followed by a seventh byte was read and
\* rendered: year 2012, month 165, day 15
C12_Witness ==
  \E c \in Ctx :
    /\ req[c].op = "get_current_plc_time"
    /\ FullRead(req[c])
    /\ Len(req[c].vals[1]) > Len(VALUE_NAMES)
    /\ SubSeq(req[c].vals[1], 1, 3) = << 18, 255, 15 >>
    /\ req[c].outcome = "returned"
    /\ req[c].ret[1] = OK
    /\ SubSeq(req[c].ret[2][1], 1, 11) =
         << "2", "0", "1", "2", "-", "1", "6", "5", "-", "1", "5" >>

(* ------------------------------------------------------------------ *)
(* Two request contexts pushing orders over one connected session      *)
(* ------------------------------------------------------------------ *)

InitPush ==
  /\ SessionOneMonitored
  /\ plc = PlcExample

\* push_new_drink as context c runs it, from its entry to its handler's
\* answer; the runs explored are those in which no call polls the trigger
\* flag more than MaxPolls times or sleeps between its polls for more than
\* MaxPolls polling intervals
PushRequest(c) ==
  \/ push_new_drink(c)
  \/ PushWrite(c)
  \/ PushSettle(c)
  \/ req[c].polls < MaxPolls /\ PushPoll(c)
  \/ PushSleep(c) /\ req'[c].elapsed <= MaxPolls * PollSleepMs
  \/ get_new_order_status(c)
  \/ ReadStep(c)
  \/ Return(c)

\* the handlers of two requests run side by side
NextPush ==
  \/ \E c \in Ctx : PushRequest(c)
  \/ PlcConsumeOrder

SpecPush == InitPush /\ [][NextPush]_vars

\* the three parameters the device last consumed were written by different calls
MixedConsumed == term.mixed

\* push_new_drink of context c returned an acknowledgement published for
\* an order of another context
ForeignAck(c) ==
  /\ req[c].op = "push_new_drink"
  /\ req[c].pc = "done"
  /\ req[c].outcome = "returned"
  /\ req[c].ret[1] = OK
  /\ req[c].ackOf # {c}

\* C13: with two push_new_drink calls running concurrently, the device can
\* consume a command area whose useIce, drinkSize and drinkTypeId were written
\* by different calls, and a call can return the acknowledgement of the other
\* call's order (the witness); neither happens unless a call was entered while
\* the other context's call was in flight or its order still awaited the device.
C13_InterleavedPushesMix ==
  (MixedConsumed \/ \E c \in Ctx : ForeignAck(c)) => term.overlap

\* r1 has returned OK with the acknowledgement of r2's order, and the command
\* area the device consumed held parameters of both
C13_Witness ==
  /\ MixedConsumed
  /\ ForeignAck("r1")
  /\ "r2" \in req["r1"].ackOf

(* ------------------------------------------------------------------ *)
(* Claims on the session model: termination, frame, sessions          *)
(* ------------------------------------------------------------------ *)

\* the polls that fit into the polling window, one per polling interval
MaxPollsInWindow == PollWindowMs \div PollSleepMs

\* C14: every push_new_drink call ends with a result, one of OK, NOK, TIMEOUT
\* and NO_CONNECTION, after at most 10 polls of the trigger flag, whether or
\* not the device ever clears the flag.
C14_PushEndsWithResult ==
  \A c \in Ctx :
    LET r == req[c]
    IN  r.op = "push_new_drink" =>
          /\ r.polls <= MaxPollsInWindow
          /\ MaxPollsInWindow = 10
          /\ r.pc = "done" =>
               /\ r.outcome = "returned"
               /\ r.ret[1] \in { OK, NOK, TIMEOUT, NO_CONNECTION }

\* C15: a step of a domain operation (the five reads, push_new_drink,
\* get_new_order_status), a failed node read or write included, leaves the
\* connected flag and the node handles as they are; they change only in
\* steps of the lifecycle loop create_and_maintain_connection.
C15_DomainOpsLeaveConnection ==
  [][ /\ req' # req => UNCHANGED << connected, handles >>
      /\ ~ UNCHANGED << connected, handles >> => lpc' # lpc ]_vars

\* a node access of an operation has failed in the transport, the operation
\* has returned NOK, and the client is still connected through its handles
C15_Witness ==
  \E c \in Ctx :
    /\ req[c].pc = "done"
    /\ req[c].ret = << NOK, None >>
    /\ req[c].accessed # {}
    /\ connected
    /\ \A n \in Nodes : handles[n] # 0

(* ------------------------------------------------------------------ *)
(* The pickup read over pickup arrays of every content                 *)
(* ------------------------------------------------------------------ *)

\* the drink a pickup slot at physical index p holds when it is not empty
SlotOrderId(p) == 20 + p

\* what the slot at physical index p may hold: no order or its order, picked
\* up or not
PickupSlots(p) ==
  { [ orderId |-> o, drinkTypeId |-> p % 2, prepStartAt |-> p, pickedUp |-> u ] :
      o \in { 0, SlotOrderId(p) }, u \in BOOLEAN }

RECURSIVE PickupArraysOfLen(_)
PickupArraysOfLen(n) ==
  IF n = 0 THEN { << >> }
           ELSE { Append(a, s) : a \in PickupArraysOfLen(n - 1), s \in PickupSlots(n - 1) }

InitPickup ==
  /\ SessionOneMonitored
  /\ plc \in { [ PlcExample EXCEPT !.pickUpDrinks = a ] :
               a \in UNION { PickupArraysOfLen(n) : n \in 0..MaxSlots } }

NextPickup ==
  \/ get_pickup_drinks_json("r1")
  \/ ReadStep("r1")
  \/ Return("r1")

SpecPickup == InitPickup /\ [][NextPickup]_vars

\* C16: the pickup-drinks result has an entry for physical slot index i if and
\* only if slot i has orderId # 0 and pickedUp false; a slot with orderId = 0
\* is never included whatever its pickedUp flag; each entry is keyed by the
\* unchanged physical index of its slot and carries that slot's drink.
C16_PickupFilterKeepsIndex ==
  \A c \in Ctx :
    LET r == req[c]
        slots == plc.pickUpDrinks
    IN  (r.op = "get_pickup_drinks_json" /\ FullRead(r)) =>
          /\ r.outcome = "returned"
          /\ r.ret[1] = OK
          /\ DOMAIN r.ret[2][1] \subseteq 0..(Len(slots) - 1)
          /\ \A i \in 0..(Len(slots) - 1) :
               /\ i \in DOMAIN r.ret[2][1]
                    <=> (slots[i + 1].orderId # 0 /\ slots[i + 1].pickedUp = FALSE)
               /\ slots[i + 1].orderId = 0 => i \notin DOMAIN r.ret[2][1]
               /\ i \in DOMAIN r.ret[2][1] =>
                    r.ret[2][1][i] = [ drinkOrderId |-> SlotOrderId(i),
                                      drinkTypeId |-> i % 2,
                                      prepStartedAt |-> i ]

\* slot 0 is picked up, slot 1 is empty and not picked up, slot 2 waits:
\* the result holds the one entry 2
C16_Witness ==
  \E c \in Ctx :
    /\ req[c].op = "get_pickup_drinks_json"
    /\ FullRead(req[c])
    /\ Len(plc.pickUpDrinks) = 3
    /\ plc.pickUpDrinks[1].orderId # 0 /\ plc.pickUpDrinks[1].pickedUp
    /\ plc.pickUpDrinks[2].orderId = 0 /\ ~plc.pickUpDrinks[2].pickedUp
    /\ plc.pickUpDrinks[3].orderId # 0 /\ ~plc.pickUpDrinks[3].pickedUp
    /\ req[c].ret[1] = OK
    /\ DOMAIN req[c].ret[2][1] = {2}
    /\ req[c].ret[2][1][2].drinkOrderId = SlotOrderId(2)

(* ------------------------------------------------------------------ *)
(* Two request contexts reading over one client                        *)
(* ------------------------------------------------------------------ *)

\* the client before its first connection, or connected through session 1
InitReads ==
  /\ plc = PlcExample
  /\ \/ /\ connected = FALSE
        /\ handles = [ n \in Nodes |-> 0 ]
        /\ lpc = "connect"
        /\ sessionCount = 0
        /\ openSessions = {}
        /\ tornDown = {}
        /\ liveness = "none"
        /\ lsleep = 0
        /\ term = TermInit
        /\ req = [ c \in Ctx |-> Idle ]
     \/ SessionOneMonitored

NextReads == \E c \in Ctx : ReadRequest(c)

SpecReads == InitReads /\ [][NextReads]_vars

\* two finished calls of the same read with the same argument that saw the
\* same value of connected
SameRead(c, d) ==
  /\ req[c].op \in DomainReads
  /\ req[c].op = req[d].op
  /\ req[c].side = req[d].side
  /\ req[c].pc = "done"
  /\ req[d].pc = "done"
  /\ req[c].connSeen = req[d].connSeen

C18_SingleOpenSession ==
  /\ Cardinality(openSessions) <= 1
  /\ lpc = "connect" => openSessions = {}

\* C19: NewDrinkInQueue.post echoes the request body only when push_new_drink
\* reported OK; when it reported TIMEOUT the response is the timeout payload
\* with statusCode TIMEOUT, when it reported NOK the response carries
\* statusCode UNDEFINED_ERROR; and each GET handler responds with statusCode
\* UNDEFINED_ERROR whenever its accessor reported NOK.
C19_HandlersMapStatus ==
  \A c \in Ctx :
    LET h == req[c].resp
    IN  (h.kind # "none" /\ h.result # << >>) =>
          /\ h.result[1] = NOK => h.statusCode = Some(UNDEFINED_ERROR)
          /\ (h.op = "push_new_drink" /\ h.result[1] = TIMEOUT) =>
               (h.kind = "timeout" /\ h.statusCode = Some(TIMEOUT))
          /\ (h.op = "push_new_drink" /\ h.kind = "echo") => h.result[1] = OK

\* C20: get_prep_drink_json invoked with a side outside {0, 1}, negative
\* values included, reads no node and ends by returning a status other than
\* OK; only side 0 reads the left and only side 1 the right preparation nodes.
C20_SideOutOfRangeFails ==
  \A c \in Ctx :
    LET r == req[c]
    IN  (r.op = "get_prep_drink_json" /\ r.side \notin { 0, 1 }) =>
          /\ r.accessed = {}
          /\ r.vals = << >>
          /\ r.pc = "done" => (r.outcome = "returned" /\ r.ret[1] # OK)

====
